---- MODULE Spec2Model ----
(***************************************************************************)
(* A model of simdnbt's borrowed NBT reader/writer (src/borrow/mod.rs) and *)
(* of its modified-UTF-8 string type (src/mutf8.rs).                       *)
(*                                                                         *)
(* Bytes are integers 0..255 and a buffer is a sequence of bytes.  A       *)
(* Cursor is a buffer plus a 0-based position.  Every fallible function    *)
(* returns a record [ok, err, pos, val]: ok says whether it returned Ok,   *)
(* err is the Error value, pos the cursor position afterwards and val the  *)
(* decoded value.                                                          *)
(*                                                                         *)
(* 32-bit integers are kept as TLA+ integers in -2^31 .. 2^31-1; 64-bit    *)
(* values are kept as a pair <<hi, lo>> of two such 32-bit halves; floats  *)
(* are kept as their bit patterns.                                         *)
(***************************************************************************)
EXTENDS Integers, Sequences, FiniteSets, TLC

VARIABLES
    pc,        \* position of the caller: which operation ran last
    data,      \* the input buffer handed to OptionalNbt::read
    nbt,       \* the Result of OptionalNbt::read(data)
    out,       \* the Vec<u8> filled by OptionalNbt::write
    nbt2,      \* the Result of OptionalNbt::read(out)
    cut,       \* the offset at which data was truncated
    nbtCut,    \* the Result of OptionalNbt::read(data[..cut])
    nest,      \* how deep the generated document nests its containers
    parser,    \* the parser's machine while OptionalNbt::read runs step by step
    count,     \* how many numbers the generated list document holds
    str,       \* a standard string: a sequence of Unicode scalar values
    mutf8,     \* the bytes of a Mutf8Str
    text,      \* the outcome of Mutf8Str::to_str
    plain,     \* the value returned by is_plain_ascii
    tag,       \* a Tag value
    accessor,  \* the name of the Tag accessor called
    got        \* the Option the accessor returned

vars == <<pc, data, nbt, out, nbt2, cut, nbtCut, nest, parser, count, str, mutf8, text,
          plain, tag, accessor, got>>

nbtVars == <<data, nbt, out, nbt2, cut, nbtCut, nest, parser, count>>
strVars == <<str, mutf8, text, plain>>
tagVars == <<tag, accessor, got>>

(***************************************************************************)
(* Tag IDs and the depth limit (crate::common).                            *)
(***************************************************************************)
END_ID == 0
BYTE_ID == 1
SHORT_ID == 2
INT_ID == 3
LONG_ID == 4
FLOAT_ID == 5
DOUBLE_ID == 6
BYTE_ARRAY_ID == 7
STRING_ID == 8
LIST_ID == 9
COMPOUND_ID == 10
INT_ARRAY_ID == 11
LONG_ARRAY_ID == 12
MAX_DEPTH == 512

(***************************************************************************)
(* Errors and results.                                                     *)
(***************************************************************************)
NoError == [kind |-> "", byte |-> 0]
UnexpectedEof == [kind |-> "UnexpectedEof", byte |-> 0]
MaxDepthExceeded == [kind |-> "MaxDepthExceeded", byte |-> 0]
InvalidListType == [kind |-> "InvalidListType", byte |-> 0]
InvalidRootType(b) == [kind |-> "InvalidRootType", byte |-> b]
UnknownTagId(b) == [kind |-> "UnknownTagId", byte |-> b]

NoResult == [ok |-> FALSE, err |-> NoError, pos |-> 0, val |-> <<>>]
Ok(p, v) == [ok |-> TRUE, err |-> NoError, pos |-> p, val |-> v]
Err(e, p) == [ok |-> FALSE, err |-> e, pos |-> p, val |-> <<>>]

(***************************************************************************)
(* The value model.  Every Tag is a record of the same shape; the fields a *)
(* variant does not use are empty.                                         *)
(*   n        the scalar payload: <<v>>, or <<hi, lo>> for 64 bits         *)
(*   b        the borrowed bytes of a byte array, string or raw array      *)
(*   list     the ListTag of a List                                        *)
(*   compound the CompoundTag of a Compound: a sequence of entries         *)
(***************************************************************************)
EmptyList == [et |-> END_ID, raw |-> <<>>, items |-> <<>>]

Scalar(id, n) == [id |-> id, n |-> n, b |-> <<>>, list |-> EmptyList, compound |-> <<>>]
Bytes(id, b) == [id |-> id, n |-> <<>>, b |-> b, list |-> EmptyList, compound |-> <<>>]
List(l) == [id |-> LIST_ID, n |-> <<>>, b |-> <<>>, list |-> l, compound |-> <<>>]
Compound(c) == [id |-> COMPOUND_ID, n |-> <<>>, b |-> <<>>, list |-> EmptyList, compound |-> c]

Entry(name, t) == [name |-> name, tag |-> t]

\* enum OptionalNbt { Some(Nbt { name, tag }), None }
OptionalNbtSome(name, c) == [some |-> TRUE, name |-> name, tag |-> c]
OptionalNbtNone == [some |-> FALSE, name |-> <<>>, tag |-> <<>>]

(***************************************************************************)
(* Big-endian primitives.                                                  *)
(***************************************************************************)
Slice(d, p, n) == SubSeq(d, p + 1, p + n)

U16(s) == s[1] * 256 + s[2]
U16Bytes(v) == <<v \div 256, v % 256>>

\* i32::from_be_bytes and i32::to_be_bytes
I32(s) == (IF s[1] >= 128 THEN s[1] - 256 ELSE s[1]) * 16777216
          + s[2] * 65536 + s[3] * 256 + s[4]
I32Bytes(v) ==
    LET top == v \div 16777216
        low == v % 16777216
    IN <<top % 256, low \div 65536, (low \div 256) % 256, low % 256>>

I8(b) == IF b >= 128 THEN b - 256 ELSE b
I8Byte(v) == v % 256
I16(s) == (IF s[1] >= 128 THEN s[1] - 256 ELSE s[1]) * 256 + s[2]
I16Bytes(v) == <<(v \div 256) % 256, v % 256>>
I64(s) == <<I32(SubSeq(s, 1, 4)), I32(SubSeq(s, 5, 8))>>
I64Bytes(v) == I32Bytes(v[1]) \o I32Bytes(v[2])

read_u8(d, p) ==
    IF p < Len(d) THEN Ok(p + 1, d[p + 1]) ELSE Err(UnexpectedEof, p)

read_bytes(d, p, n) ==
    IF p + n <= Len(d) THEN Ok(p + n, Slice(d, p, n)) ELSE Err(UnexpectedEof, p)

\* [len:u16][bytes:len]
read_string(d, p) ==
    LET l == read_bytes(d, p, 2)
    IN IF ~l.ok THEN l ELSE read_bytes(d, l.pos, U16(l.val))

write_string(d, s) == d \o U16Bytes(Len(s)) \o s

\* A length prefix: a 32-bit count; one with the top bit set exceeds every
\* buffer.  Returns the count and leaves the cursor after the prefix.
read_length(d, p) ==
    LET l == read_bytes(d, p, 4)
    IN IF ~l.ok THEN l
       ELSE IF l.val[1] >= 128 THEN Err(UnexpectedEof, l.pos)
       ELSE Ok(l.pos, I32(l.val))

\* [count:i32][count * width bytes], borrowed as they are
read_with_length(d, p, width) ==
    LET l == read_length(d, p)
    IN IF ~l.ok THEN l
       ELSE IF l.val > Len(d) - l.pos THEN Err(UnexpectedEof, l.pos)
       ELSE read_bytes(d, l.pos, l.val * width)

ScalarWidth(id) ==
    CASE id = BYTE_ID -> 1
      [] id = SHORT_ID -> 2
      [] id = INT_ID -> 4
      [] id = LONG_ID -> 8
      [] id = FLOAT_ID -> 4
      [] id = DOUBLE_ID -> 8
      [] OTHER -> 0

ScalarValue(id, s) ==
    CASE id = BYTE_ID -> <<I8(s[1])>>
      [] id = SHORT_ID -> <<I16(s)>>
      [] id = INT_ID -> <<I32(s)>>
      [] id = FLOAT_ID -> <<I32(s)>>
      [] OTHER -> I64(s)

ScalarBytes(id, n) ==
    CASE id = BYTE_ID -> <<I8Byte(n[1])>>
      [] id = SHORT_ID -> I16Bytes(n[1])
      [] id = INT_ID -> I32Bytes(n[1])
      [] id = FLOAT_ID -> I32Bytes(n[1])
      [] OTHER -> I64Bytes(n)

ArrayWidth(id) ==
    CASE id = BYTE_ARRAY_ID -> 1
      [] id = INT_ARRAY_ID -> 4
      [] id = LONG_ARRAY_ID -> 8
      [] OTHER -> 0

(***************************************************************************)
(* The parser, CompoundTag::new and ListTag::new, as the machine the       *)
(* recursion runs on: a stack with one frame per container being parsed.   *)
(* A frame holds the depth its parse call was given, the name of the       *)
(* compound entry it will become, and what it has collected so far.        *)
(***************************************************************************)
Frame(kind, name, et, left, depth) ==
    [kind |-> kind, name |-> name, et |-> et, left |-> left, depth |-> depth,
     values |-> <<>>, items |-> <<>>]

Top(m) == m.stack[Len(m.stack)]

\* The parse returns early with an error.
Fail(m, e, p) == [m EXCEPT !.pos = p, !.stack = <<>>, !.done = TRUE, !.res = Err(e, p)]

\* The payload of one value that is not a container: the part after the type
\* byte and the name in a compound, and the whole element in a list.
read_payload(d, p, id) ==
    IF ScalarWidth(id) > 0 THEN
        LET r == read_bytes(d, p, ScalarWidth(id))
        IN IF ~r.ok THEN r ELSE Ok(r.pos, Scalar(id, ScalarValue(id, r.val)))
    ELSE IF ArrayWidth(id) > 0 THEN
        LET r == read_with_length(d, p, ArrayWidth(id))
        IN IF ~r.ok THEN r ELSE Ok(r.pos, Bytes(id, r.val))
    ELSE IF id = STRING_ID THEN
        LET r == read_string(d, p)
        IN IF ~r.ok THEN r ELSE Ok(r.pos, Bytes(id, r.val))
    ELSE Err(UnknownTagId(id), p)

\* The value just parsed joins the container on top of the stack.
Attach(m, p, name, t) ==
    LET top == Top(m)
        new == IF top.kind = "compound"
               THEN [top EXCEPT !.values = Append(@, Entry(name, t))]
               ELSE [top EXCEPT !.items = Append(@, t), !.left = @ - 1]
    IN [m EXCEPT !.pos = p, !.stack = [@ EXCEPT ![Len(m.stack)] = new]]

\* CompoundTag::new(data, depth)
CompoundTag_new(m, p, name, depth) ==
    IF depth > MAX_DEPTH THEN Fail(m, MaxDepthExceeded, p)
    ELSE [m EXCEPT !.pos = p,
                   !.stack = Append(@, Frame("compound", name, END_ID, 0, depth))]

\* ListTag::new(data, depth): the element type, the length, and then either
\* the raw view of a list of Ints or Longs, or the elements one by one.
ListTag_new(d, m, p, name, depth) ==
    IF depth > MAX_DEPTH THEN Fail(m, MaxDepthExceeded, p)
    ELSE LET t == read_u8(d, p)
             l == read_length(d, p + 1)
         IN IF ~t.ok THEN Fail(m, t.err, t.pos)
            ELSE IF ~l.ok THEN Fail(m, l.err, l.pos)
            ELSE IF t.val > LONG_ARRAY_ID THEN Fail(m, InvalidListType, l.pos)
            ELSE IF t.val = END_ID THEN
                IF l.val # 0 THEN Fail(m, InvalidListType, l.pos)
                ELSE Attach(m, l.pos, name, List(EmptyList))
            ELSE IF l.val > Len(d) - l.pos THEN Fail(m, UnexpectedEof, l.pos)
            ELSE IF t.val \in {INT_ID, LONG_ID} THEN
                LET r == read_bytes(d, l.pos, l.val * ScalarWidth(t.val))
                IN IF ~r.ok THEN Fail(m, r.err, r.pos)
                   ELSE Attach(m, r.pos, name,
                               List([et |-> t.val, raw |-> r.val, items |-> <<>>]))
            ELSE [m EXCEPT !.pos = l.pos,
                           !.stack = Append(@, Frame("list", name, t.val, l.val, depth))]

\* One value of type id at position p, inside the container on top.
read_value(d, m, p, name, id) ==
    IF id = COMPOUND_ID THEN CompoundTag_new(m, p, name, Top(m).depth + 1)
    ELSE IF id = LIST_ID THEN ListTag_new(d, m, p, name, Top(m).depth + 1)
    ELSE LET r == read_payload(d, p, id)
         IN IF ~r.ok THEN Fail(m, r.err, r.pos) ELSE Attach(m, r.pos, name, r.val)

\* The container on top is complete: it returns to the one that holds it, or,
\* for the root compound, to the caller.
Close(m, p) ==
    LET top == Top(m)
        rest == SubSeq(m.stack, 1, Len(m.stack) - 1)
        t == IF top.kind = "compound" THEN Compound(top.values)
             ELSE List([et |-> top.et, raw |-> <<>>, items |-> top.items])
    IN IF rest = <<>>
       THEN [m EXCEPT !.pos = p, !.stack = <<>>, !.done = TRUE, !.res = Ok(p, top.values)]
       ELSE Attach([m EXCEPT !.stack = rest], p, top.name, t)

\* One turn of the loop of the container on top of the stack.
ParseStep(d, m) ==
    IF Top(m).kind = "compound" THEN
        LET t == read_u8(d, m.pos)
            name == read_string(d, m.pos + 1)
        IN IF ~t.ok THEN Fail(m, t.err, t.pos)
           ELSE IF t.val = END_ID THEN Close(m, t.pos)
           ELSE IF ~name.ok THEN Fail(m, name.err, name.pos)
           ELSE read_value(d, m, name.pos, name.val, t.val)
    ELSE IF Top(m).left = 0 THEN Close(m, m.pos)
    ELSE read_value(d, m, m.pos, <<>>, Top(m).et)

\* The parse run to its end.
RECURSIVE Parse(_, _)
Parse(d, m) ==
    IF m.done THEN m
    ELSE CHOOSE r \in { Parse(d, n) : n \in {ParseStep(d, m)} } : TRUE

(***************************************************************************)
(* The recursive writer: CompoundTag::write and ListTag::write.            *)
(***************************************************************************)
RECURSIVE CompoundTag_write(_, _)
RECURSIVE ListTag_write(_, _)
RECURSIVE write_payload(_, _)
RECURSIVE write_items(_, _, _)

write_payload(d, t) ==
    IF ScalarWidth(t.id) > 0 THEN d \o ScalarBytes(t.id, t.n)
    ELSE IF ArrayWidth(t.id) > 0 THEN
        d \o I32Bytes(Len(t.b) \div ArrayWidth(t.id)) \o t.b
    ELSE IF t.id = STRING_ID THEN write_string(d, t.b)
    ELSE IF t.id = LIST_ID THEN ListTag_write(d, t.list)
    ELSE CompoundTag_write(d, t.compound)

write_items(d, items, i) ==
    IF i > Len(items) THEN d
    ELSE write_items(write_payload(d, items[i]), items, i + 1)

ListTag_write(d, l) ==
    IF l.et \in {INT_ID, LONG_ID} THEN
        d \o <<l.et>> \o I32Bytes(Len(l.raw) \div ScalarWidth(l.et)) \o l.raw
    ELSE write_items(d \o <<l.et>> \o I32Bytes(Len(l.items)), l.items, 1)

RECURSIVE write_entries(_, _, _)
write_entries(d, values, i) ==
    IF i > Len(values) THEN d
    ELSE write_entries(
            write_payload(write_string(d \o <<values[i].tag.id>>, values[i].name),
                          values[i].tag),
            values, i + 1)

CompoundTag_write(d, values) == write_entries(d, values, 1) \o <<END_ID>>

(***************************************************************************)
(* src/borrow/mod.rs                                                       *)
(***************************************************************************)
Machine == [pos |-> 0, stack |-> <<>>, done |-> FALSE, res |-> Err(NoError, 0),
            some |-> FALSE, name |-> <<>>]

\* A reader that takes an empty input for the absent document.
ReadRoot_eof_is_absent(d, depth) ==
    LET root_type == read_u8(d, 0)
        name == read_string(d, 1)
    IN IF ~root_type.ok
       THEN [Machine EXCEPT !.done = TRUE, !.res = Ok(0, <<>>)]
       ELSE IF root_type.val = END_ID
            THEN [Machine EXCEPT !.pos = 1, !.done = TRUE, !.res = Ok(1, <<>>)]
       ELSE IF root_type.val # COMPOUND_ID
            THEN Fail(Machine, InvalidRootType(root_type.val), 1)
       ELSE IF ~name.ok THEN Fail(Machine, name.err, name.pos)
       ELSE CompoundTag_new([Machine EXCEPT !.some = TRUE, !.name = name.val],
                            name.pos, <<>>, depth)

\* OptionalNbt::read up to its call of CompoundTag::new, which is given depth.
ReadRoot(d, depth) ==
    LET root_type == read_u8(d, 0)
        name == read_string(d, 1)
    IN IF ~root_type.ok THEN Fail(Machine, UnexpectedEof, 0)
       ELSE IF root_type.val = END_ID
            THEN [Machine EXCEPT !.pos = 1, !.done = TRUE, !.res = Ok(1, <<>>)]
       ELSE IF root_type.val # COMPOUND_ID
            THEN Fail(Machine, InvalidRootType(root_type.val), 1)
       ELSE IF ~name.ok THEN Fail(Machine, name.err, name.pos)
       ELSE CompoundTag_new([Machine EXCEPT !.some = TRUE, !.name = name.val],
                            name.pos, <<>>, depth)

\* A reader that counts the root compound as one level of nesting.
OptionalNbt_begin_counting_root(d) == ReadRoot(d, 1)

OptionalNbt_begin(d) == ReadRoot(d, 0)

\* A reader that returns the root compound without its entries.
OptionalNbt_end_without_entries(m) ==
    IF ~m.res.ok THEN Err(m.res.err, m.res.pos)
    ELSE IF m.some THEN Ok(m.res.pos, OptionalNbtSome(m.name, <<>>))
    ELSE Ok(m.res.pos, OptionalNbtNone)

\* What OptionalNbt::read returns once the parse is done.
OptionalNbt_end(m) ==
    IF ~m.res.ok THEN Err(m.res.err, m.res.pos)
    ELSE IF m.some THEN Ok(m.res.pos, OptionalNbtSome(m.name, m.res.val))
    ELSE Ok(m.res.pos, OptionalNbtNone)

OptionalNbt_read(d) == OptionalNbt_end(Parse(d, OptionalNbt_begin(d)))

\* A writer that leaves out the root name.
Nbt_write_without_name(n, d) ==
    CompoundTag_write(d \o <<COMPOUND_ID>>, n.tag) \o <<END_ID>>

Nbt_write(n, d) ==
    CompoundTag_write(write_string(d \o <<COMPOUND_ID>>, n.name), n.tag) \o <<END_ID>>

\* A writer that writes nothing for the absent document.
OptionalNbt_write_nothing_for_none(o, d) ==
    IF o.some THEN Nbt_write(o, d) ELSE d

OptionalNbt_write(o, d) ==
    IF o.some THEN Nbt_write(o, d) ELSE d \o <<END_ID>>


(***************************************************************************)
(* The accessors.  An Option is a record of one shape: Some carries the    *)
(* payload in the field of its type, None carries nothing.                 *)
(***************************************************************************)
None == [some |-> FALSE, n |-> <<>>, b |-> <<>>, list |-> EmptyList,
         compound |-> <<>>, vec |-> <<>>]
SomeNumber(n) == [None EXCEPT !.some = TRUE, !.n = n]
SomeBytes(b) == [None EXCEPT !.some = TRUE, !.b = b]
SomeList(l) == [None EXCEPT !.some = TRUE, !.list = l]
SomeCompound(c) == [None EXCEPT !.some = TRUE, !.compound = c]
SomeVec(v) == [None EXCEPT !.some = TRUE, !.vec = v]

\* RawList::to_vec: every element converted from big-endian.
RawList_to_vec(raw, width) ==
    [i \in 1..(Len(raw) \div width) |->
        IF width = 4 THEN I32(SubSeq(raw, 4 * i - 3, 4 * i))
        ELSE I64(SubSeq(raw, 8 * i - 7, 8 * i))]

Tag_byte(t) == IF t.id = BYTE_ID THEN SomeNumber(t.n) ELSE None
Tag_short(t) == IF t.id = SHORT_ID THEN SomeNumber(t.n) ELSE None
\* An int accessor that widens the narrower integers.
Tag_int_widening(t) ==
    IF t.id \in {BYTE_ID, SHORT_ID, INT_ID} THEN SomeNumber(t.n) ELSE None
Tag_int(t) == IF t.id = INT_ID THEN SomeNumber(t.n) ELSE None
Tag_long(t) == IF t.id = LONG_ID THEN SomeNumber(t.n) ELSE None
Tag_float(t) == IF t.id = FLOAT_ID THEN SomeNumber(t.n) ELSE None
Tag_double(t) == IF t.id = DOUBLE_ID THEN SomeNumber(t.n) ELSE None
Tag_byte_array(t) == IF t.id = BYTE_ARRAY_ID THEN SomeBytes(t.b) ELSE None
Tag_string(t) == IF t.id = STRING_ID THEN SomeBytes(t.b) ELSE None
Tag_list(t) == IF t.id = LIST_ID THEN SomeList(t.list) ELSE None
Tag_compound(t) == IF t.id = COMPOUND_ID THEN SomeCompound(t.compound) ELSE None
Tag_int_array(t) ==
    IF t.id = INT_ARRAY_ID THEN SomeVec(RawList_to_vec(t.b, 4)) ELSE None
Tag_long_array(t) ==
    IF t.id = LONG_ARRAY_ID THEN SomeVec(RawList_to_vec(t.b, 8)) ELSE None

Accessors == {"byte", "short", "int", "long", "float", "double", "byte_array",
              "string", "list", "compound", "int_array", "long_array"}

Call(name, t) ==
    CASE name = "byte" -> Tag_byte(t)
      [] name = "short" -> Tag_short(t)
      [] name = "int" -> Tag_int(t)
      [] name = "long" -> Tag_long(t)
      [] name = "float" -> Tag_float(t)
      [] name = "double" -> Tag_double(t)
      [] name = "byte_array" -> Tag_byte_array(t)
      [] name = "string" -> Tag_string(t)
      [] name = "list" -> Tag_list(t)
      [] name = "compound" -> Tag_compound(t)
      [] name = "int_array" -> Tag_int_array(t)
      [] OTHER -> Tag_long_array(t)

\* CompoundTag::get: the first entry with the name, and CompoundTag::list.
CompoundTag_get(values, name) ==
    IF \E i \in 1..Len(values) : values[i].name = name
    THEN [found |-> TRUE,
          tag |-> values[CHOOSE i \in 1..Len(values) :
                            /\ values[i].name = name
                            /\ \A j \in 1..(i - 1) : values[j].name # name].tag]
    ELSE [found |-> FALSE, tag |-> Scalar(BYTE_ID, <<0>>)]

CompoundTag_list(values, name) ==
    IF CompoundTag_get(values, name).found
    THEN Tag_list(CompoundTag_get(values, name).tag)
    ELSE None

\* ListTag::ints and ListTag::longs
ListTag_ints(l) == IF l.et = INT_ID THEN SomeVec(RawList_to_vec(l.raw, 4)) ELSE None
ListTag_longs(l) == IF l.et = LONG_ID THEN SomeVec(RawList_to_vec(l.raw, 8)) ELSE None

(***************************************************************************)
(* Documents that nest containers `nest` levels below the root compound.   *)
(* The container at level j is a compound or a list, as the pattern says;  *)
(* level 0 is the root.  The innermost list is empty and declares End.     *)
(***************************************************************************)
Patterns == {"compounds", "lists", "compound-list", "list-compound"}

IsCompoundAt(pattern, j) ==
    CASE j = 0 -> TRUE
      [] pattern = "compounds" -> TRUE
      [] pattern = "lists" -> FALSE
      [] pattern = "compound-list" -> j % 2 = 1
      [] OTHER -> j % 2 = 0

KindId(pattern, j) == IF IsCompoundAt(pattern, j) THEN COMPOUND_ID ELSE LIST_ID

\* The bytes that open the container at level j: in a compound its type and
\* its empty name, and for a list its element type and length.
Opening(pattern, levels, j) ==
    (IF IsCompoundAt(pattern, j - 1) THEN <<KindId(pattern, j), 0, 0>> ELSE <<>>)
    \o (IF IsCompoundAt(pattern, j) THEN <<>>
        ELSE IF j = levels THEN <<END_ID, 0, 0, 0, 0>>
        ELSE <<KindId(pattern, j + 1), 0, 0, 0, 1>>)

\* The bytes that close it: a compound ends with End, a list with nothing.
Closing(pattern, j) == IF IsCompoundAt(pattern, j) THEN <<END_ID>> ELSE <<>>

RECURSIVE Openings(_, _, _, _)
Openings(pattern, levels, lo, hi) ==
    IF lo > hi THEN <<>>
    ELSE IF lo = hi THEN Opening(pattern, levels, lo)
    ELSE Openings(pattern, levels, lo, (lo + hi) \div 2)
         \o Openings(pattern, levels, (lo + hi) \div 2 + 1, hi)

RECURSIVE Closings(_, _, _)
Closings(pattern, lo, hi) ==
    IF lo > hi THEN <<>>
    ELSE IF lo = hi THEN Closing(pattern, lo)
    ELSE Closings(pattern, (lo + hi) \div 2 + 1, hi)
         \o Closings(pattern, lo, (lo + hi) \div 2)

DeepDocument(pattern, levels) ==
    <<COMPOUND_ID, 0, 0>> \o Openings(pattern, levels, 1, levels)
    \o Closings(pattern, 1, levels) \o <<END_ID>>

(***************************************************************************)
(* Input buffers: a root chunk followed by up to MaxChunks body chunks.    *)
(* The chunks are pieces of documents; most sequences of them are not      *)
(* documents, and the reader has to say so.                                *)
(***************************************************************************)
MaxChunks == 3

\* What a buffer may start with when no compound follows.
OtherRoots == {
    <<>>,
    <<END_ID>>,
    <<END_ID, 0>>,
    <<END_ID, COMPOUND_ID, 0, 0, END_ID>>,
    <<BYTE_ID, 0, 0, 7>>,
    <<LIST_ID, 0, 0, END_ID, 0, 0, 0, 0>>,
    <<13, 0, 0>>,
    <<255>> }

\* The root compound's type and name: "" and "a".
RootChunks == { <<COMPOUND_ID, 0, 0>>, <<COMPOUND_ID, 0, 1, 97>> }

BodyChunks == {
    \* the end of a compound
    <<END_ID>>,
    \* a nested compound with an empty name: its body follows
    <<COMPOUND_ID, 0, 0>>,
    \* Byte "a" = -1; twice in one compound it is a duplicate key
    <<BYTE_ID, 0, 1, 97, 255>>,
    \* Short, Int, Long, Float (a NaN) and Double, all with empty names
    <<SHORT_ID, 0, 0, 128, 1,  INT_ID, 0, 0, 255, 0, 0, 1,
      LONG_ID, 0, 0, 128, 0, 0, 0, 255, 255, 255, 255,
      FLOAT_ID, 0, 0, 127, 192, 0, 1,
      DOUBLE_ID, 0, 0, 255, 240, 0, 0, 0, 0, 0, 1>>,
    \* ByteArray of 2, IntArray of 1, LongArray "b" of 0, and a String named
    \* U+0000 (C0 80) with the value "b"
    <<BYTE_ARRAY_ID, 0, 0, 0, 0, 0, 2, 200, 0,
      INT_ARRAY_ID, 0, 0, 0, 0, 0, 1, 255, 255, 255, 254,
      LONG_ARRAY_ID, 0, 1, 98, 0, 0, 0, 0,
      STRING_ID, 0, 2, 192, 128, 0, 1, 98>>,
    \* zero-length lists declared as End, Int and String
    <<LIST_ID, 0, 0, END_ID, 0, 0, 0, 0,  LIST_ID, 0, 0, INT_ID, 0, 0, 0, 0,
      LIST_ID, 0, 0, STRING_ID, 0, 0, 0, 0>>,
    \* List "a" of the two Ints 0 and -2, List of the Strings "a" and ""
    <<LIST_ID, 0, 1, 97, INT_ID, 0, 0, 0, 2, 0, 0, 0, 0, 255, 255, 255, 254,
      LIST_ID, 0, 0, STRING_ID, 0, 0, 0, 2, 0, 1, 97, 0, 0>>,
    \* List of one Compound: its body follows
    <<LIST_ID, 0, 0, COMPOUND_ID, 0, 0, 0, 1>>,
    \* List of one List of two Bytes
    <<LIST_ID, 0, 0, LIST_ID, 0, 0, 0, 1, BYTE_ID, 0, 0, 0, 2, 5, 250>>,
    \* a List of Bytes with a negative length
    <<LIST_ID, 0, 0, BYTE_ID, 255, 255, 255, 255>>,
    \* a List of End with a length of one
    <<LIST_ID, 0, 0, END_ID, 0, 0, 0, 1>>,
    \* an unknown tag ID
    <<13, 0, 0>> }

RECURSIVE Flatten(_)
Flatten(chunks) ==
    IF chunks = <<>> THEN <<>> ELSE Head(chunks) \o Flatten(Tail(chunks))

Inputs ==
    OtherRoots \cup
    { r \o Flatten(body) :
        r \in RootChunks,
        body \in UNION { [1..k -> BodyChunks] : k \in 0..MaxChunks } }

(***************************************************************************)
(* The caller of the NBT reader and writer: it reads a buffer, writes the  *)
(* document back into an empty Vec, reads what it wrote, and reads the     *)
(* input again cut short at some offset.                                   *)
(***************************************************************************)
StrIdle ==
    /\ str = <<>> /\ mutf8 = <<>> /\ plain = FALSE
    /\ text = [op |-> "", kind |-> "", path |-> "", val |-> <<>>, message |-> ""]
TagIdle == tag = Scalar(BYTE_ID, <<0>>) /\ accessor = "" /\ got = None

InitNbt ==
    /\ pc = "start"
    /\ data \in Inputs
    /\ nbt = NoResult
    /\ out = <<>>
    /\ nbt2 = NoResult
    /\ cut = 0
    /\ nbtCut = NoResult
    /\ nest = 0
    /\ parser = Machine
    /\ count = 0
    /\ StrIdle
    /\ TagIdle

Read ==
    /\ pc = "start"
    /\ nbt' = OptionalNbt_read(data)
    /\ pc' = "read"
    /\ UNCHANGED <<data, out, nbt2, cut, nbtCut, nest, parser, count, strVars, tagVars>>

Write ==
    /\ pc = "read"
    /\ nbt.ok
    /\ out' = OptionalNbt_write(nbt.val, <<>>)
    /\ pc' = "written"
    /\ UNCHANGED <<data, nbt, nbt2, cut, nbtCut, nest, parser, count, strVars, tagVars>>

ReadWritten ==
    /\ pc = "written"
    /\ nbt2' = OptionalNbt_read(out)
    /\ pc' = "reread"
    /\ UNCHANGED <<data, nbt, out, cut, nbtCut, nest, parser, count, strVars, tagVars>>

ReadTruncated ==
    /\ pc = "read"
    /\ nbt.ok
    /\ \E k \in 0..(Len(data) - 1) :
        /\ cut' = k
        /\ nbtCut' = OptionalNbt_read(SubSeq(data, 1, k))
    /\ pc' = "truncated"
    /\ UNCHANGED <<data, nbt, out, nbt2, nest, parser, count, strVars, tagVars>>

NextNbt == Read \/ Write \/ ReadWritten \/ ReadTruncated

SpecNbt == InitNbt /\ [][NextNbt]_vars

(***************************************************************************)
(* OptionalNbt::read followed step by step through documents that nest     *)
(* their containers up to and beyond MAX_DEPTH.                            *)
(***************************************************************************)
MaxNest == 6

Nests == (0..MaxNest) \cup {MAX_DEPTH - 1, MAX_DEPTH, MAX_DEPTH + 1, MAX_DEPTH + 2}

InitDepth ==
    /\ pc = "start"
    /\ nest \in Nests
    /\ data \in { DeepDocument(p, nest) : p \in Patterns }
    /\ nbt = NoResult
    /\ out = <<>>
    /\ nbt2 = NoResult
    /\ cut = 0
    /\ nbtCut = NoResult
    /\ parser = Machine
    /\ count = 0
    /\ StrIdle
    /\ TagIdle

Begin ==
    /\ pc = "start"
    /\ parser' = OptionalNbt_begin(data)
    /\ pc' = "parsing"
    /\ UNCHANGED <<data, nbt, out, nbt2, cut, nbtCut, nest, count, strVars, tagVars>>

Step ==
    /\ pc = "parsing"
    /\ ~parser.done
    /\ parser' = ParseStep(data, parser)
    /\ UNCHANGED <<pc, data, nbt, out, nbt2, cut, nbtCut, nest, count, strVars, tagVars>>

Return ==
    /\ pc = "parsing"
    /\ parser.done
    /\ nbt' = OptionalNbt_end(parser)
    /\ pc' = "read"
    /\ UNCHANGED <<data, out, nbt2, cut, nbtCut, nest, parser, count, strVars, tagVars>>

NextDepth == Begin \/ Step \/ Return

SpecDepth == InitDepth /\ [][NextDepth]_vars

(***************************************************************************)
(* src/mutf8.rs: the modified UTF-8 string type.  A standard string is a   *)
(* sequence of Unicode scalar values; a Mutf8Str is its slice of bytes.    *)
(***************************************************************************)
HighBit(b) == b >= 128

\* A scan that leaves out the bytes after the last group of four.
ScanGroups_without_remainder(n) ==
    LET chunks == n \div 32
        start == 32 * chunks
        take16 == IF n - start > 16 THEN 16 ELSE 0
        at8 == start + take16
        take8 == IF n - at8 > 8 THEN 8 ELSE 0
        at4 == at8 + take8
        take4 == IF n - at4 > 4 THEN 4 ELSE 0
    IN (IF take16 > 0 THEN <<[off |-> start, len |-> 16]>> ELSE <<>>)
       \o (IF take8 > 0 THEN <<[off |-> at8, len |-> 8]>> ELSE <<>>)
       \o (IF take4 > 0 THEN <<[off |-> at4, len |-> 4]>> ELSE <<>>)
       \o [c \in 1..chunks |-> [off |-> 32 * (c - 1), len |-> 32]]

\* The groups of bytes is_plain_ascii examines, in its order: of the bytes
\* after the last whole 32-byte chunk a group of 16, of 8 and of 4 while more
\* than that many remain, the rest byte by byte, and then the 32-byte chunks.
ScanGroups(n) ==
    LET chunks == n \div 32
        start == 32 * chunks
        take16 == IF n - start > 16 THEN 16 ELSE 0
        at8 == start + take16
        take8 == IF n - at8 > 8 THEN 8 ELSE 0
        at4 == at8 + take8
        take4 == IF n - at4 > 4 THEN 4 ELSE 0
        at1 == at4 + take4
    IN (IF take16 > 0 THEN <<[off |-> start, len |-> 16]>> ELSE <<>>)
       \o (IF take8 > 0 THEN <<[off |-> at8, len |-> 8]>> ELSE <<>>)
       \o (IF take4 > 0 THEN <<[off |-> at4, len |-> 4]>> ELSE <<>>)
       \o [i \in 1..(n - at1) |-> [off |-> at1 + i - 1, len |-> 1]]
       \o [c \in 1..chunks |-> [off |-> 32 * (c - 1), len |-> 32]]

\* simd & splat(0b10000000) != zero, and byte & 0b10000000 != 0
GroupHasHighBit(slice, g) == \E i \in 1..g.len : HighBit(slice[g.off + i])

is_plain_ascii(slice) ==
    \A groups \in {ScanGroups(Len(slice))} :
        \A k \in 1..Len(groups) : ~GroupHasHighBit(slice, groups[k])

\* The mutf8 crate's encode: UTF-8, but U+0000 as C0 80 and a code point
\* above U+FFFF as a surrogate pair of two 3-byte sequences.
Encode3(c) == <<224 + (c \div 4096), 128 + ((c \div 64) % 64), 128 + (c % 64)>>

EncodeChar(c) ==
    IF c = 0 THEN <<192, 128>>
    ELSE IF c < 128 THEN <<c>>
    ELSE IF c < 2048 THEN <<192 + (c \div 64), 128 + (c % 64)>>
    ELSE IF c < 65536 THEN Encode3(c)
    ELSE Encode3(55296 + ((c - 65536) \div 1024))
         \o Encode3(56320 + ((c - 65536) % 1024))

RECURSIVE mutf8_encode(_)
mutf8_encode(s) ==
    IF s = <<>> THEN <<>> ELSE EncodeChar(Head(s)) \o mutf8_encode(Tail(s))

\* The mutf8 crate's decode.  Continuation bytes are 10xxxxxx.
IsCont(bytes, i) == i <= Len(bytes) /\ bytes[i] >= 128 /\ bytes[i] < 192

Decode2(bytes, i) == (bytes[i] - 192) * 64 + (bytes[i + 1] - 128)
Decode3(bytes, i) ==
    (bytes[i] - 224) * 4096 + (bytes[i + 1] - 128) * 64 + (bytes[i + 2] - 128)

Is3(bytes, i) ==
    /\ i <= Len(bytes) /\ bytes[i] >= 224 /\ bytes[i] < 240
    /\ IsCont(bytes, i + 1) /\ IsCont(bytes, i + 2)
    /\ Decode3(bytes, i) >= 2048

MalformedString == [kind |-> "MalformedString", byte |-> 0]

RECURSIVE mutf8_decode_at(_, _, _)
mutf8_decode_at(bytes, i, acc) ==
    IF i > Len(bytes) THEN Ok(i - 1, acc)
    ELSE IF bytes[i] = 0 THEN Err(MalformedString, i - 1)
    ELSE IF bytes[i] < 128 THEN mutf8_decode_at(bytes, i + 1, Append(acc, bytes[i]))
    ELSE IF bytes[i] >= 192 /\ bytes[i] < 224 /\ IsCont(bytes, i + 1)
            /\ (Decode2(bytes, i) >= 128 \/ Decode2(bytes, i) = 0)
         THEN mutf8_decode_at(bytes, i + 2, Append(acc, Decode2(bytes, i)))
    ELSE IF Is3(bytes, i) /\ (Decode3(bytes, i) < 55296 \/ Decode3(bytes, i) > 57343)
         THEN mutf8_decode_at(bytes, i + 3, Append(acc, Decode3(bytes, i)))
    ELSE IF Is3(bytes, i) /\ Decode3(bytes, i) < 56320
            /\ Is3(bytes, i + 3) /\ Decode3(bytes, i + 3) >= 56320
            /\ Decode3(bytes, i + 3) <= 57343
         THEN mutf8_decode_at(bytes, i + 6,
                 Append(acc, 65536 + (Decode3(bytes, i) - 55296) * 1024
                                   + (Decode3(bytes, i + 3) - 56320)))
    ELSE Err(MalformedString, i - 1)

mutf8_decode(bytes) == mutf8_decode_at(bytes, 1, <<>>)

\* What a conversion to a standard string does: it returns the string, by
\* the plain-ASCII path or by the decoder, or it panics.
NoText == [op |-> "", kind |-> "", path |-> "", val |-> <<>>, message |-> ""]
Returned(op, path, s) ==
    [op |-> op, kind |-> "Returned", path |-> path, val |-> s, message |-> ""]
Panicked(op, path, message) ==
    [op |-> op, kind |-> "Panicked", path |-> path, val |-> <<>>, message |-> message]

\* Mutf8Str::from_slice is a transmute, and Mutf8Str::from_str keeps the
\* bytes mutf8::encode gives it, borrowed or owned.
from_slice(slice) == slice
from_str(s) == from_slice(mutf8_encode(s))

\* The body that Mutf8Str::to_str and Mutf8String::into_string share.
Convert(op, slice) ==
    IF is_plain_ascii(slice) THEN Returned(op, "plain", slice)
    ELSE IF mutf8_decode(slice).ok
         THEN Returned(op, "decode", mutf8_decode(slice).val)
         ELSE Panicked(op, "decode", "Mutf8Str must alwaus be valid MUTF-8")

\* A to_str that takes the zero-copy path for every slice.
to_str_always_zero_copy(slice) == Returned("to_str", "plain", slice)

to_str(slice) == Convert("to_str", slice)
into_string(vec) == Convert("into_string", vec)

(***************************************************************************)
(* The caller of the string type: it encodes a standard string and         *)
(* converts it back, or converts a slice of bytes it got elsewhere.        *)
(***************************************************************************)
MaxStrLen == 2
MaxRawLen == 3
MaxSliceLen == 70

\* Scalar values at the edges of the encoded lengths: U+0000, "A", U+007F,
\* U+0080, U+07FF, U+0800, U+D7FF, U+E000, U+FFFF, U+10000, U+10401, U+10FFFF.
CodePoints == {0, 65, 127, 128, 2047, 2048, 55295, 57344, 65535, 65536, 66561, 1114111}

Strings == UNION { [1..k -> CodePoints] : k \in 0..MaxStrLen }

\* Bytes that start, continue or break a sequence.
RawBytes == {0, 65, 128, 129, 192, 193, 223, 224, 237, 160, 176, 240}

\* "Hello, world!", and the encodings of U+0000 and of U+10401
KnownSlices == {
    <<72, 101, 108, 108, 111, 44, 32, 119, 111, 114, 108, 100, 33>>,
    <<192, 128>>,
    <<237, 160, 129, 237, 176, 129>> }

\* Slices of every length up to MaxSliceLen with at most one byte that has
\* its high bit set.
SparseSlices ==
    { [i \in 1..n |-> IF i = p THEN hi ELSE lo] :
        n \in 0..MaxSliceLen, p \in 0..MaxSliceLen, hi \in {128, 255}, lo \in {0, 127} }

Slices ==
    KnownSlices \cup SparseSlices
    \cup UNION { [1..k -> RawBytes] : k \in 0..MaxRawLen }

NoString == <<-1>>

NbtIdle ==
    /\ data = <<>> /\ nbt = NoResult /\ out = <<>> /\ nbt2 = NoResult
    /\ cut = 0 /\ nbtCut = NoResult /\ nest = 0 /\ parser = Machine /\ count = 0

InitStr ==
    /\ \/ pc = "str" /\ str \in Strings /\ mutf8 = <<>>
       \/ pc = "slice" /\ str = NoString /\ mutf8 \in Slices
    /\ text = NoText
    /\ plain = FALSE
    /\ NbtIdle
    /\ TagIdle

FromStr ==
    /\ pc = "str"
    /\ mutf8' = from_str(str)
    /\ pc' = "slice"
    /\ UNCHANGED <<str, text, plain, nbtVars, tagVars>>

ToStr ==
    /\ pc = "slice"
    /\ plain' = is_plain_ascii(mutf8)
    /\ text' = to_str(mutf8)
    /\ pc' = "done"
    /\ UNCHANGED <<str, mutf8, nbtVars, tagVars>>

IntoString ==
    /\ pc = "slice"
    /\ plain' = is_plain_ascii(mutf8)
    /\ text' = into_string(mutf8)
    /\ pc' = "done"
    /\ UNCHANGED <<str, mutf8, nbtVars, tagVars>>

NextStr == FromStr \/ ToStr \/ IntoString

SpecStr == InitStr /\ [][NextStr]_vars

(***************************************************************************)
(* The caller of the accessors: any accessor on any kind of Tag.           *)
(***************************************************************************)
Tags == {
    Scalar(BYTE_ID, <<-128>>), Scalar(BYTE_ID, <<3>>),
    Scalar(SHORT_ID, <<-1>>), Scalar(SHORT_ID, <<3>>),
    Scalar(INT_ID, <<-2147483647>>), Scalar(INT_ID, <<3>>),
    Scalar(LONG_ID, <<0, 3>>), Scalar(LONG_ID, <<-1, -1>>),
    Scalar(FLOAT_ID, <<3>>), Scalar(FLOAT_ID, <<1077936128>>),
    Scalar(DOUBLE_ID, <<0, 3>>), Scalar(DOUBLE_ID, <<1074266112, 0>>),
    Bytes(BYTE_ARRAY_ID, <<>>), Bytes(BYTE_ARRAY_ID, <<0, 0, 0, 3>>),
    Bytes(STRING_ID, <<>>), Bytes(STRING_ID, <<0, 0, 0, 3>>),
    Bytes(INT_ARRAY_ID, <<>>), Bytes(INT_ARRAY_ID, <<0, 0, 0, 3, 255, 255, 255, 254>>),
    Bytes(LONG_ARRAY_ID, <<>>), Bytes(LONG_ARRAY_ID, <<0, 0, 0, 3, 255, 255, 255, 254>>),
    List(EmptyList),
    List([et |-> INT_ID, raw |-> <<0, 0, 0, 3>>, items |-> <<>>]),
    List([et |-> BYTE_ID, raw |-> <<>>, items |-> <<Scalar(BYTE_ID, <<3>>)>>]),
    Compound(<<>>),
    Compound(<<Entry(<<97>>, Scalar(INT_ID, <<3>>))>>) }

InitTag ==
    /\ pc = "tag"
    /\ tag \in Tags
    /\ accessor = ""
    /\ got = None
    /\ NbtIdle
    /\ StrIdle

CallAccessor ==
    /\ pc = "tag"
    /\ \E name \in Accessors :
        /\ accessor' = name
        /\ got' = Call(name, tag)
    /\ pc' = "called"
    /\ UNCHANGED <<tag, nbtVars, strVars>>

NextTag == CallAccessor

SpecTag == InitTag /\ [][NextTag]_vars

(***************************************************************************)
(* The tests inttest_1021, inttest_1023, inttest_1024 and longtest_1023:   *)
(* a root compound with one list "" of the Ints or Longs 0, 1, ..., n-1,   *)
(* read, looked up with list("") and converted with ints() or longs().     *)
(***************************************************************************)
MaxCount == 40

Counts == (0..MaxCount) \cup {1021, 1023, 1024}

ElementBytes(id, i) == IF id = INT_ID THEN I32Bytes(i) ELSE I64Bytes(<<0, i>>)

NumberListDocument(id, n) ==
    <<COMPOUND_ID, 0, 0, LIST_ID, 0, 0, id>> \o I32Bytes(n)
    \o [j \in 1..(n * ScalarWidth(id)) |->
           ElementBytes(id, (j - 1) \div ScalarWidth(id))[((j - 1) % ScalarWidth(id)) + 1]]
    \o <<END_ID>>

InitList ==
    /\ pc = "start"
    /\ count \in Counts
    /\ data \in { NumberListDocument(id, count) : id \in {INT_ID, LONG_ID} }
    /\ nbt = NoResult
    /\ out = <<>>
    /\ nbt2 = NoResult
    /\ cut = 0
    /\ nbtCut = NoResult
    /\ nest = 0
    /\ parser = Machine
    /\ StrIdle
    /\ TagIdle

LookupList ==
    /\ pc = "read"
    /\ nbt.ok
    /\ nbt.val.some
    /\ accessor' = "list"
    /\ got' = CompoundTag_list(nbt.val.tag, <<>>)
    /\ pc' = "found"
    /\ UNCHANGED <<tag, nbtVars, strVars>>

Ints ==
    /\ pc = "found"
    /\ got.some
    /\ accessor' = "ints"
    /\ got' = ListTag_ints(got.list)
    /\ pc' = "converted"
    /\ UNCHANGED <<tag, nbtVars, strVars>>

Longs ==
    /\ pc = "found"
    /\ got.some
    /\ accessor' = "longs"
    /\ got' = ListTag_longs(got.list)
    /\ pc' = "converted"
    /\ UNCHANGED <<tag, nbtVars, strVars>>

NextList == Read \/ LookupList \/ Ints \/ Longs

SpecList == InitList /\ [][NextList]_vars

(***************************************************************************)
(* The properties.                                                         *)
(***************************************************************************)

\* C1: writing what OptionalNbt::read decoded from a buffer it consumed to
\* the end gives back the bytes of that buffer, one for one.  (SpecNbt)
C1_ByteExactRoundTrip ==
    pc = "written" /\ nbt.pos = Len(data) => out = data

\* What the writer does instead: after a present document it adds one End.
C1_WriterAddsEnd ==
    pc = "written" /\ nbt.pos = Len(data) /\ nbt.val.some => out = data \o <<END_ID>>

\* C2: what was read, once written and read again, is read successfully and
\* is the same document: the same root name and the same entries in the
\* same order, or the absent document again.  (SpecNbt)
C2_WriteThenReadStable ==
    pc = "reread" => nbt2.ok /\ nbt2.val = nbt.val

C2_Witness ==
    /\ pc = "reread"
    /\ nbt.val.some
    /\ Len(nbt.val.tag) >= 2
    /\ \E i \in 1..Len(nbt.val.tag) : nbt.val.tag[i].tag.id = LIST_ID
    /\ nbt2.ok
    /\ nbt2.val = nbt.val

\* C3, for any buffer: of any buffer that is read successfully, every
\* shorter prefix is read as UnexpectedEof.  (SpecNbt)
C3_TruncationOfAnyInput ==
    pc = "truncated" => ~nbtCut.ok /\ nbtCut.err = UnexpectedEof

\* C3: of a buffer that is one document and nothing more (the read consumes
\* it to its end), every shorter prefix is read as UnexpectedEof, the
\* empty prefix too; the read never succeeds and gives no other error.  (SpecNbt)
C3_Truncation ==
    pc = "truncated" /\ nbt.pos = Len(data)
        => ~nbtCut.ok /\ nbtCut.err = UnexpectedEof

C3_Witness ==
    /\ pc = "truncated"
    /\ nbt.pos = Len(data)
    /\ nbt.val.some
    /\ cut > 3
    /\ ~nbtCut.ok
    /\ nbtCut.err = UnexpectedEof

\* C4: the root compound is parsed at depth 0 and every compound or list
\* inside a container one deeper than it, whatever the alternation; a
\* document nesting MAX_DEPTH levels below the root is read to its end and
\* one nesting deeper fails with MaxDepthExceeded.  (SpecDepth)
C4_DepthGuard ==
    /\ \A i \in 1..Len(parser.stack) : parser.stack[i].depth = i - 1
    /\ pc = "read" /\ nest <= MAX_DEPTH => nbt.ok /\ nbt.pos = Len(data)
    /\ pc = "read" /\ nest > MAX_DEPTH => ~nbt.ok /\ nbt.err = MaxDepthExceeded

C4_Witness ==
    /\ pc = "read"
    /\ nest = MAX_DEPTH + 1
    /\ ~nbt.ok
    /\ nbt.err = MaxDepthExceeded

C6_AsciiEncodedUnchanged ==
    pc \in {"slice", "done"} /\ str # NoString /\ (\A i \in 1..Len(str) : str[i] \in 0..127)
        => mutf8 = str

\* C6: from_str and then to_str or into_string give back the string;
\* U+0000 is encoded as C0 80 and U+10401 as ED A0 81 ED B0 81, and those
\* bytes convert to that code point; a string of 7-bit ASCII characters
\* other than U+0000 is encoded as its own bytes.  (SpecStr)
C6_StringFidelity ==
    /\ pc = "done" /\ str # NoString => text.kind = "Returned" /\ text.val = str
    /\ pc \in {"slice", "done"} /\ str = <<0>> => mutf8 = <<192, 128>>
    /\ pc \in {"slice", "done"} /\ str = <<66561>>
         => mutf8 = <<237, 160, 129, 237, 176, 129>>
    /\ pc = "done" /\ mutf8 = <<192, 128>> => text.val = <<0>>
    /\ pc = "done" /\ mutf8 = <<237, 160, 129, 237, 176, 129>> => text.val = <<66561>>
    /\ pc \in {"slice", "done"} /\ str # NoString
         /\ (\A i \in 1..Len(str) : str[i] \in 1..127)
         => mutf8 = str

C6_Witness ==
    /\ pc = "done"
    /\ str = <<0, 66561>>
    /\ mutf8 = <<192, 128, 237, 160, 129, 237, 176, 129>>
    /\ text.op = "to_str"
    /\ text.val = str

\* C7: converting bytes that are neither plain ASCII nor valid modified
\* UTF-8 does not panic.  (SpecStr)
C7_MalformedNeverPanics ==
    pc = "done" /\ ~plain /\ ~mutf8_decode(mutf8).ok => text.kind # "Panicked"

\* What the conversions do instead: they panic exactly on those bytes.
C7_PanicsExactlyOnMalformed ==
    pc = "done" => (text.kind = "Panicked" <=> ~plain /\ ~mutf8_decode(mutf8).ok)

\* C8: an accessor gives Some exactly on the variant it names, None on the
\* other eleven, and Some carries the stored payload: the number, the
\* bytes, the list or the compound as stored, and for the arrays the
\* numbers whose big-endian bytes are stored.  (SpecTag)
C8_AccessorsMatchVariant ==
    pc = "called" =>
        LET id == CASE accessor = "byte" -> BYTE_ID
                    [] accessor = "short" -> SHORT_ID
                    [] accessor = "int" -> INT_ID
                    [] accessor = "long" -> LONG_ID
                    [] accessor = "float" -> FLOAT_ID
                    [] accessor = "double" -> DOUBLE_ID
                    [] accessor = "byte_array" -> BYTE_ARRAY_ID
                    [] accessor = "string" -> STRING_ID
                    [] accessor = "list" -> LIST_ID
                    [] accessor = "compound" -> COMPOUND_ID
                    [] accessor = "int_array" -> INT_ARRAY_ID
                    [] accessor = "long_array" -> LONG_ARRAY_ID
        IN /\ got.some <=> tag.id = id
           /\ ~got.some => got = None
           /\ got.some /\ id <= DOUBLE_ID => got = SomeNumber(tag.n)
           /\ got.some /\ id \in {BYTE_ARRAY_ID, STRING_ID} => got = SomeBytes(tag.b)
           /\ got.some /\ id = LIST_ID => got = SomeList(tag.list)
           /\ got.some /\ id = COMPOUND_ID => got = SomeCompound(tag.compound)
           /\ got.some /\ id = INT_ARRAY_ID =>
                /\ 4 * Len(got.vec) = Len(tag.b)
                /\ \A i \in 1..Len(got.vec) :
                     I32Bytes(got.vec[i]) = SubSeq(tag.b, 4 * i - 3, 4 * i)
           /\ got.some /\ id = LONG_ARRAY_ID =>
                /\ 8 * Len(got.vec) = Len(tag.b)
                /\ \A i \in 1..Len(got.vec) :
                     I64Bytes(got.vec[i]) = SubSeq(tag.b, 8 * i - 7, 8 * i)

C8_Witness ==
    /\ pc = "called"
    /\ accessor = "int"
    /\ tag = Scalar(SHORT_ID, <<3>>)
    /\ got = None

\* C9: the document with one list of the n Ints (Longs) 0, 1, ..., n-1 is
\* read to its end, list("") finds the list, and ints() (longs()) gives n
\* numbers of which the i-th is i.  (SpecList)
C9_NumberLists ==
    /\ pc # "start" => nbt.ok /\ nbt.val.some /\ nbt.pos = Len(data)
    /\ pc = "found" => got.some
    /\ pc = "converted" /\ accessor = "ints" /\ data[7] = INT_ID =>
        /\ got.some
        /\ Len(got.vec) = count
        /\ \A i \in 0..(count - 1) : got.vec[i + 1] = i
    /\ pc = "converted" /\ accessor = "longs" /\ data[7] = LONG_ID =>
        /\ got.some
        /\ Len(got.vec) = count
        /\ \A i \in 0..(count - 1) : got.vec[i + 1] = <<0, i>>

C9_Witness ==
    /\ pc = "converted"
    /\ count = 1024
    /\ accessor = "ints"
    /\ got.some
    /\ Len(got.vec) = 1024
    /\ got.vec[1024] = 1023

====
